---- MODULE Spec2Model ----
(***************************************************************************)
(* The model cache, the OCR request handlers and the request statistics of *)
(* the EasyOCR2 FastAPI server (easyocr_server_enhanced.py; the cache and  *)
(* the handlers are the same, line for line, in easyocr_server.py).        *)
(*                                                                         *)
(* Scheduling.  Every endpoint is an `async def` and uvicorn runs them on  *)
(* one asyncio event loop at a time per process (a worker process has its  *)
(* own MODEL_CACHE and STATS).  A coroutine keeps the loop until its next   *)
(* await.  perform_ocr, warmup_model and get_or_create_model contain no    *)
(* await, so a handler, once it runs, runs to its response; the only await *)
(* of the program is track_requests' `await call_next(request)`.  The      *)
(* variable loop names the request whose handler holds the event loop.     *)
(*                                                                         *)
(* Exceptions.  An HTTPException raised by a handler is turned into a 4xx  *)
(* or 5xx response by the framework's exception handlers, which sit below  *)
(* the user middleware: call_next returns that response.  Only another     *)
(* exception leaving a handler is re-raised by call_next.                  *)
(***************************************************************************)
EXTENDS Integers, Sequences, FiniteSets, TLC

\* ------------------------------------------------------------- bounds
\* requests served in one behaviour of Spec
MaxRequests == 2
\* requests served in one behaviour of SpecStats, none of which gets as far
\* as get_or_create_model
MaxOtherRequests == 5
\* language codes are 1..MaxCode (a code is one symbol, compared as Python
\* compares strings)
MaxCode == 2
\* longest language list of a request
MaxLangs == 2
\* requests that are in at the same time (arrived, not yet counted)
MaxInFlight == 2
\* capacity of the latency window; stands for the 1000 of track_requests
WindowCapacity == 3
\* most text spans the recognizer finds in one image
MaxSpans == 2
\* recognized texts are 1..MaxText
MaxText == 2

Max(a, b) == IF a >= b THEN a ELSE b
Requests == 1..Max(MaxRequests, MaxOtherRequests)
Codes == 1..MaxCode

\* the separator of ",".join: a symbol that is no language code
COMMA == 0

RECURSIVE SeqsUpTo(_)
SeqsUpTo(n) ==
  IF n = 0 THEN {<<>>}
  ELSE LET shorter == SeqsUpTo(n - 1)
       IN  shorter \cup {Append(s, c) : s \in shorter, c \in Codes}

\* the language lists a request can carry: any order, repeats, and empty
\* (OcrRequest.languages is a List[str] with no length constraint)
LangLists == SeqsUpTo(MaxLangs)

\* ------------------------------------------------------ get_model_key
RECURSIVE insert(_, _)
insert(x, s) ==
  IF s = <<>> THEN <<x>>
  ELSE IF x <= Head(s) THEN <<x>> \o s
  ELSE <<Head(s)>> \o insert(x, Tail(s))

\* sorted(languages): ascending, repeats kept
RECURSIVE sorted(_)
sorted(s) == IF s = <<>> THEN <<>> ELSE insert(Head(s), sorted(Tail(s)))

\* ",".join(parts)
RECURSIVE join(_)
join(parts) ==
  IF parts = <<>> THEN <<>>
  ELSE IF Len(parts) = 1 THEN <<parts[1]>>
  ELSE <<parts[1], COMMA>> \o join(Tail(parts))

\* a key derivation that forgets to sort
get_model_key_unsorted(languages) == join(languages)

get_model_key(languages) == join(sorted(languages))

AllKeys == {get_model_key(l) : l \in LangLists}

\* ------------------------------------------------------------- state
VARIABLES
  MODEL_CACHE,   \* dict: model key -> {reader, languages, loaded_at, gpu_enabled}
  STATS,         \* dict: the three counters and processing_times
  pc,            \* where each request is
  req,           \* each request's inputs
  reader,        \* perform_ocr's local `reader`
  results,       \* perform_ocr's local `results`: what readtext returned
  result,        \* what each handler ended with
  loop,          \* the request whose handler holds the event loop, 0 if none
  clock,         \* time.time(): it advances when a request arrives and
                 \* while a model is built
  builderCalls,  \* history: easyocr.Reader(...) invocations per key
  buildFailures, \* history: how many of them raised, per key
  returned,      \* history: the readers get_or_create_model returned, per key
  recFailures,   \* history: each readtext that raised: the key, the reader,
                 \* the key's builderCalls and the time
  recorded,      \* history: every duration track_requests measured, in order
  failures,      \* history: requests counted whose handler ended in an error
  raisedExc,     \* history: the exception raised inside each handler's try
                 \* block, as it was before the handler's except clauses
  shut           \* lifespan has run its shutdown part

vars == <<MODEL_CACHE, STATS, pc, req, reader, results, result, loop, clock,
          builderCalls, buildFailures, returned, recFailures, recorded,
          failures, raisedExc, shut>>

\* the history variables
hist == <<builderCalls, buildFailures, returned, recFailures, recorded,
          failures, raisedExc>>

NoReader == [id |-> 0, lang_list |-> <<>>, gpu |-> FALSE]
\* no cache entry
NoEntry == [reader |-> NoReader, languages |-> <<>>, loaded_at |-> 0,
            gpu_enabled |-> FALSE]
\* start_time is track_requests' local; cold (history) says that the cache
\* held no entry for the request's key when the request arrived, and seen
\* (history) is the entry it held
NoRequest == [kind |-> "none", languages |-> <<>>, detail |-> 0,
              gpu |-> FALSE, image_ok |-> FALSE, start_time |-> 0,
              cold |-> FALSE, seen |-> NoEntry]
NoBody == [average_processing_time_ms_x100 |-> 0, success_rate_x100 |-> 0,
           total_requests |-> 0, successful_requests |-> 0, failed_requests |-> 0]
\* body is the body of a stats response, results the results of an
\* OcrResponse
NoResult == [kind |-> "none", status_code |-> 0, body |-> NoBody,
             results |-> <<>>]

Response(code) == [kind |-> "response", status_code |-> code, body |-> NoBody,
                   results |-> <<>>]
\* return OcrResponse(status="success", ..., results=ocr_results, ...)
OcrResponse(ocr_results) == [kind |-> "response", status_code |-> 200,
                             body |-> NoBody, results |-> ocr_results]
\* raise HTTPException(status_code=code)
HTTPException(code) == [kind |-> "http_exception", status_code |-> code,
                        body |-> NoBody, results |-> <<>>]
\* any other exception leaving a handler
Unhandled == [kind |-> "exception", status_code |-> 0, body |-> NoBody,
              results |-> <<>>]
\* the request ended in a failure: an error status or an exception
Failed(res) == res.kind \in {"http_exception", "exception"}

RECURSIVE SumSeq(_)
SumSeq(s) == IF s = <<>> THEN 0 ELSE Head(s) + SumSeq(Tail(s))

SumCalls == LET RECURSIVE Total(_)
                Total(ks) == IF ks = {} THEN 0
                             ELSE LET k == CHOOSE x \in ks : TRUE
                                  IN  builderCalls[k] + Total(ks \ {k})
            IN  Total(AllKeys)

Init ==
  /\ MODEL_CACHE = <<>>
  /\ STATS = [total_requests |-> 0, successful_requests |-> 0,
              failed_requests |-> 0, processing_times |-> <<>>]
  /\ pc = [r \in Requests |-> "idle"]
  /\ req = [r \in Requests |-> NoRequest]
  /\ reader = [r \in Requests |-> NoReader]
  /\ results = [r \in Requests |-> <<>>]
  /\ result = [r \in Requests |-> NoResult]
  /\ loop = 0
  /\ clock = 0
  /\ builderCalls = [k \in AllKeys |-> 0]
  /\ buildFailures = [k \in AllKeys |-> 0]
  /\ returned = [k \in AllKeys |-> {}]
  /\ recFailures = {}
  /\ recorded = <<>>
  /\ failures = 0
  /\ raisedExc = [r \in Requests |-> NoResult]
  /\ shut = FALSE

\* ------------------------------------------------ get_or_create_model
\* a lookup that never finds the key
cache_miss_always(cache, model_key) == TRUE

\* `if model_key not in MODEL_CACHE`
cache_miss(cache, model_key) == model_key \notin DOMAIN cache

\* easyocr.Reader(languages, gpu=gpu): a new object on every invocation,
\* remembering what it was built with; n numbers the invocations
NewReader(n, languages, gpu) == [id |-> n, lang_list |-> languages, gpu |-> gpu]

\* a cache that keeps the newest model alone
install_alone(cache, model_key, rd, languages, now, gpu) ==
  [k \in {model_key} |->
     [reader |-> rd, languages |-> languages, loaded_at |-> now,
      gpu_enabled |-> gpu]]

\* MODEL_CACHE[model_key] = {...}
install(cache, model_key, rd, languages, now, gpu) ==
  [k \in DOMAIN cache \cup {model_key} |->
     IF k = model_key
     THEN [reader |-> rd, languages |-> languages, loaded_at |-> now,
           gpu_enabled |-> gpu]
     ELSE cache[k]]

\* a hit that stamps the entry with the time of the call
on_cache_hit_reloads(cache, model_key, now) ==
  [cache EXCEPT ![model_key].loaded_at = now]

\* the path past `if model_key not in MODEL_CACHE` when the key is there:
\* straight to the return, the cache is not written
on_cache_hit(cache, model_key, now) == cache

\* a failure path that leaves a placeholder entry behind
on_build_failure_marks(cache, model_key, languages, now, gpu) ==
  install(cache, model_key, NoReader, languages, now, gpu)

\* the except branch of get_or_create_model: log and raise, the cache is
\* not written
on_build_failure(cache, model_key, languages, now, gpu) == cache

\* a failure path that drops the entry of the model that failed
on_recognition_failure_evicts(cache, model_key) ==
  [k \in DOMAIN cache \ {model_key} |-> cache[k]]

\* the except branches of perform_ocr: log and raise, the cache is not
\* written
on_recognition_failure(cache, model_key) == cache

\* a shutdown that leaves the dict as it is
clear_nothing(cache) == cache

\* MODEL_CACHE.clear(): the dict is emptied; a reader that a local variable
\* still names is not touched by it
clear(cache) == <<>>

\* ------------------------------------------------- recognition results
\* Coordinates are in halves of a pixel and confidences in hundredths.  The
\* recognizer finds text spans, each a box of four corner points, a text and
\* a confidence.
Boxes ==
  {<< <<0, 0>>, <<20, 0>>, <<20, 20>>, <<0, 20>> >>,
   << <<-3, 1>>, <<21, 3>>, <<19, 9>>, <<-1, 7>> >>}
Texts == 1..MaxText
Confidences == {50, 95}
Spans == {<<b, t, c>> : b \in Boxes, t \in Texts, c \in Confidences}

RECURSIVE SpanSeqsUpTo(_)
SpanSeqsUpTo(n) ==
  IF n = 0 THEN {<<>>}
  ELSE LET shorter == SpanSeqsUpTo(n - 1)
       IN  shorter \cup {Append(s, sp) : s \in shorter, sp \in Spans}

\* what the recognizer can find in an image
Outputs == SpanSeqsUpTo(MaxSpans)

\* what reader.readtext(image, detail=detail) returns for the spans found:
\* the texts alone at detail 0, the (bbox, text, confidence) triples
\* otherwise
readtext(spans, detail) ==
  IF detail = 0 THEN [i \in 1..Len(spans) |-> spans[i][2]] ELSE spans

\* int(x): towards zero
int(x_x2) == IF x_x2 >= 0 THEN x_x2 \div 2 ELSE 0 - ((0 - x_x2) \div 2)

\* float(confidence): the same number as a Python float
float(confidence) == confidence

\* OcrResult(bbox=..., text=..., confidence=...); bbox defaults to the
\* empty list and confidence to 0.0
OcrResult(bbox, text, confidence) ==
  [bbox |-> bbox, text |-> text, confidence |-> confidence]

\* a detailed mode that builds its list from the front
parse_results_prepending(returned_results, detail) ==
  IF detail = 0
  THEN [i \in 1..Len(returned_results) |->
          OcrResult(<<>>, returned_results[i], 0)]
  ELSE [i \in 1..Len(returned_results) |->
          LET triple == returned_results[Len(returned_results) + 1 - i]
          IN  OcrResult([j \in 1..Len(triple[1]) |->
                           <<int(triple[1][j][1]), int(triple[1][j][2])>>],
                        triple[2], float(triple[3]))]

\* perform_ocr's "Parse results"
parse_results(returned_results, detail) ==
  IF detail = 0
  THEN [i \in 1..Len(returned_results) |->
          OcrResult(<<>>, returned_results[i], 0)]
  ELSE [i \in 1..Len(returned_results) |->
          LET triple == returned_results[i]
          IN  OcrResult([j \in 1..Len(triple[1]) |->
                           <<int(triple[1][j][1]), int(triple[1][j][2])>>],
                        triple[2], float(triple[3]))]

\* the bridge's output: {"text": text} per item at detail 0, bbox, text and
\* confidence per triple otherwise
bridge_output(returned_results, detail) ==
  IF detail = 0
  THEN [i \in 1..Len(returned_results) |-> [text |-> returned_results[i]]]
  ELSE [i \in 1..Len(returned_results) |->
          LET triple == returned_results[i]
          IN  [bbox |-> [j \in 1..Len(triple[1]) |->
                           <<int(triple[1][j][1]), int(triple[1][j][2])>>],
               text |-> triple[2], confidence |-> float(triple[3])]]

\* ---------------------------------------------- the handlers' excepts
\* a handler that never gives the event loop back
handler_keeps_loop(r) == r

\* who holds the event loop once the handler of request r has returned or
\* raised: nobody, the coroutine is over and the next ready one can run
handler_ends(r) == 0

\* a handler that leaves the image alone until it has its model
decode_image_later(image_ok) == NoResult

\* the inner try of perform_ocr, its first step: base64.b64decode and
\* Image.open, any exception of which becomes HTTPException(400)
decode_image(image_ok) == IF image_ok THEN NoResult ELSE HTTPException(400)

\* an outer handler that turns whatever was raised into a 500
perform_ocr_except_catch_all(exc) == HTTPException(500)

\* the except clauses that close perform_ocr's try: `except HTTPException:
\* raise`, then `except Exception` raising HTTPException(500)
perform_ocr_except(exc) ==
  IF exc.kind = "http_exception" THEN exc ELSE HTTPException(500)

\* warmup_model's `except Exception`, which an HTTPException matches too
warmup_model_except(exc) == HTTPException(500)

\* ------------------------------------------------------ track_requests
\* whether `await call_next(request)` raises: only for an exception that
\* is no HTTPException (an HTTPException reaches the middleware as the
\* response the framework made of it)
call_next_raises(res) == res.kind = "exception"

\* a window trimmed at the wrong end
window_append_drop_newest(times, d) ==
  LET appended == Append(times, d)
  IN  IF Len(appended) > WindowCapacity
      THEN SubSeq(appended, 1, Len(appended) - 1)
      ELSE appended

\* processing_times.append(process_time); pop(0) once over capacity
window_append(times, d) ==
  LET appended == Append(times, d)
  IN  IF Len(appended) > WindowCapacity THEN Tail(appended) ELSE appended

\* a middleware whose except clause counts the request a second time
track_requests_update_counts_both(stats, raised, d) ==
  LET counted == IF raised
                 THEN [stats EXCEPT !.failed_requests = @ + 1,
                                    !.successful_requests = @ + 1]
                 ELSE [stats EXCEPT !.successful_requests = @ + 1]
  IN  [counted EXCEPT !.total_requests = @ + 1,
                      !.processing_times = window_append(@, d)]

\* a middleware whose bookkeeping runs only when call_next returns
track_requests_update_no_finally(stats, raised, d) ==
  IF raised
  THEN [stats EXCEPT !.failed_requests = @ + 1]
  ELSE [stats EXCEPT !.successful_requests = @ + 1,
                     !.total_requests = @ + 1,
                     !.processing_times = window_append(@, d)]

\* the try / except / finally of track_requests after call_next
track_requests_update(stats, raised, d) ==
  LET counted == IF raised
                 THEN [stats EXCEPT !.failed_requests = @ + 1]
                 ELSE [stats EXCEPT !.successful_requests = @ + 1]
  IN  [counted EXCEPT !.total_requests = @ + 1,
                      !.processing_times = window_append(@, d)]

\* ----------------------------------------------------- get_server_stats
\* round(num / den, 2), in hundredths; Python rounds halves to even
Round2(num, den) ==
  LET q == (100 * num) \div den
      rem == (100 * num) % den
  IN  IF 2 * rem < den THEN q
      ELSE IF 2 * rem > den THEN q + 1
      ELSE IF q % 2 = 0 THEN q ELSE q + 1

\* an average taken over the whole capacity
average_x100_over_capacity(times) ==
  IF times # <<>> THEN Round2(SumSeq(times), WindowCapacity) ELSE 0

\* round(sum(times) / len(times) if times else 0, 2), in hundredths of a ms
average_x100(times) ==
  IF times # <<>> THEN Round2(SumSeq(times), Len(times)) ELSE 0

\* a rate cut after two decimals instead of rounded
success_rate_x100_truncated(successful, total) ==
  IF total > 0 THEN (successful * 100 * 100) \div total ELSE 0

\* round((successful / total * 100) if total > 0 else 0, 2), in hundredths
success_rate_x100(successful, total) ==
  IF total > 0 THEN Round2(successful * 100, total) ELSE 0

get_server_stats(stats) ==
  [average_processing_time_ms_x100 |-> average_x100(stats.processing_times),
   success_rate_x100 |->
     success_rate_x100(stats.successful_requests, stats.total_requests),
   total_requests |-> stats.total_requests,
   successful_requests |-> stats.successful_requests,
   failed_requests |-> stats.failed_requests]

\* ------------------------------------------------------------ requests
\* requests that reach get_or_create_model: POST /api/v1/ocr with a
\* decodable image, POST /api/v1/models/warmup
ModelInputs ==
  {[kind |-> k, languages |-> l, detail |-> 1, gpu |-> g, image_ok |-> TRUE] :
     k \in {"ocr", "warmup"}, l \in LangLists, g \in BOOLEAN}
\* requests that do not: POST /api/v1/ocr with an undecodable image (its
\* other fields at OcrRequest's defaults), GET /api/v1/stats, GET /api/v1/info
OtherInputs ==
  {[kind |-> "ocr", languages |-> <<1>>, detail |-> 1, gpu |-> TRUE,
    image_ok |-> FALSE],
   [kind |-> "stats", languages |-> <<>>, detail |-> 0, gpu |-> FALSE,
    image_ok |-> FALSE],
   [kind |-> "info", languages |-> <<>>, detail |-> 0, gpu |-> FALSE,
    image_ok |-> FALSE]}
\* requests that read the cache: GET /api/v1/models, GET /api/v1/health
ReadInputs ==
  {[kind |-> k, languages |-> <<>>, detail |-> 0, gpu |-> FALSE,
    image_ok |-> FALSE] : k \in {"models", "health"}}
Inputs == ModelInputs \cup OtherInputs \cup ReadInputs
\* POST /api/v1/ocr with a decodable image and either detail level, its
\* other fields at OcrRequest's defaults
DetailInputs ==
  {[kind |-> "ocr", languages |-> <<1>>, detail |-> d, gpu |-> TRUE,
    image_ok |-> TRUE] : d \in {0, 1}}

InFlight == {q \in Requests : pc[q] \notin {"idle", "done"}}

\* track_requests up to `await call_next(request)`: the request is in, its
\* handler has not run yet.  Requests take the slots in order.
ArriveWith(r, inputs) ==
  /\ ~shut
  /\ pc[r] = "idle"
  /\ \A q \in Requests : q < r => pc[q] # "idle"
  /\ Cardinality(InFlight) < MaxInFlight
  /\ \E i \in inputs :
       req' = [req EXCEPT ![r] =
                 [kind |-> i.kind, languages |-> i.languages,
                  detail |-> i.detail, gpu |-> i.gpu,
                  image_ok |-> i.image_ok, start_time |-> clock + 1,
                  cold |-> get_model_key(i.languages) \notin DOMAIN MODEL_CACHE,
                  seen |-> IF get_model_key(i.languages) \in DOMAIN MODEL_CACHE
                           THEN MODEL_CACHE[get_model_key(i.languages)]
                           ELSE NoEntry]]
  /\ pc' = [pc EXCEPT ![r] = "call_next"]
  /\ clock' = clock + 1
  /\ UNCHANGED <<MODEL_CACHE, STATS, results, reader, result, loop, shut>>
  /\ UNCHANGED hist

\* any request
Arrive(r) == r <= MaxRequests /\ ArriveWith(r, Inputs)

\* a request that does not reach get_or_create_model
ArriveOther(r) == r <= MaxOtherRequests /\ ArriveWith(r, OtherInputs)

\* an OCR request of either detail level
ArriveDetail(r) == r <= MaxRequests /\ ArriveWith(r, DetailInputs)

\* perform_ocr from its start to the call of get_or_create_model: the image
\* is decoded first, and an undecodable one raises HTTPException(400)
\* inside the handler's try block
PerformOcr(r) ==
  /\ loop = 0
  /\ pc[r] = "call_next"
  /\ req[r].kind = "ocr"
  /\ IF decode_image(req[r].image_ok) = NoResult
     THEN /\ pc' = [pc EXCEPT ![r] = "get_model"]
          /\ loop' = r
          /\ UNCHANGED <<result, raisedExc>>
     ELSE /\ pc' = [pc EXCEPT ![r] = "responded"]
          /\ raisedExc' = [raisedExc EXCEPT ![r] = decode_image(req[r].image_ok)]
          /\ result' = [result EXCEPT ![r] =
                          perform_ocr_except(decode_image(req[r].image_ok))]
          /\ UNCHANGED loop
  /\ UNCHANGED <<MODEL_CACHE, STATS, results, req, reader, clock, shut>>
  /\ UNCHANGED <<builderCalls, buildFailures, returned, recFailures, recorded,
                 failures>>

\* warmup_model up to the call of get_or_create_model
WarmupModel(r) ==
  /\ loop = 0
  /\ pc[r] = "call_next"
  /\ req[r].kind = "warmup"
  /\ pc' = [pc EXCEPT ![r] = "get_model"]
  /\ loop' = r
  /\ UNCHANGED <<MODEL_CACHE, STATS, results, req, reader, result, clock, shut>>
  /\ UNCHANGED hist

\* `return MODEL_CACHE[model_key]['reader']` and what the caller does with
\* it: perform_ocr goes on to readtext, warmup_model answers
ReturnReader(r, cache) ==
  LET model_key == get_model_key(req[r].languages)
  IN  /\ returned' = [returned EXCEPT ![model_key] =
                         @ \cup {cache[model_key].reader.id}]
      /\ IF req[r].kind = "ocr"
         THEN /\ reader' = [reader EXCEPT ![r] = cache[model_key].reader]
              /\ pc' = [pc EXCEPT ![r] = "readtext"]
              /\ UNCHANGED <<result, loop>>
         ELSE /\ result' = [result EXCEPT ![r] = Response(200)]
              /\ pc' = [pc EXCEPT ![r] = "responded"]
              /\ loop' = handler_ends(r)
              /\ UNCHANGED reader

\* get_or_create_model: the key, the lookup, and on a miss the call of
\* easyocr.Reader
GetOrCreateModel(r) ==
  /\ loop = r
  /\ pc[r] = "get_model"
  /\ LET model_key == get_model_key(req[r].languages)
     IN  IF cache_miss(MODEL_CACHE, model_key)
         THEN /\ pc' = [pc EXCEPT ![r] = "building"]
              /\ builderCalls' = [builderCalls EXCEPT ![model_key] = @ + 1]
              /\ UNCHANGED <<MODEL_CACHE, reader, result, loop, returned>>
         ELSE /\ MODEL_CACHE' = on_cache_hit(MODEL_CACHE, model_key, clock)
              /\ ReturnReader(r, MODEL_CACHE')
              /\ UNCHANGED builderCalls
  /\ UNCHANGED <<STATS, results, req, clock, shut>>
  /\ UNCHANGED <<buildFailures, recFailures, recorded, failures, raisedExc>>

\* easyocr.Reader returns: the entry is installed and the reader returned
BuildSucceeds(r) ==
  /\ loop = r
  /\ pc[r] = "building"
  /\ LET model_key == get_model_key(req[r].languages)
         rd == NewReader(SumCalls, req[r].languages, req[r].gpu)
         cache == install(MODEL_CACHE, model_key, rd, req[r].languages,
                          clock + 1, req[r].gpu)
     IN  /\ MODEL_CACHE' = cache
         /\ ReturnReader(r, cache)
  /\ clock' = clock + 1
  /\ UNCHANGED <<STATS, results, req, shut>>
  /\ UNCHANGED <<builderCalls, buildFailures, recFailures, recorded, failures,
                 raisedExc>>

\* easyocr.Reader raises: HTTPException(500) leaves get_or_create_model and
\* meets the except clauses of the handler that called it
BuildFails(r) ==
  /\ loop = r
  /\ pc[r] = "building"
  /\ MODEL_CACHE' = on_build_failure(MODEL_CACHE,
                                     get_model_key(req[r].languages),
                                     req[r].languages, clock + 1,
                                     req[r].gpu)
  /\ raisedExc' = [raisedExc EXCEPT ![r] = HTTPException(500)]
  /\ result' = [result EXCEPT ![r] =
                  IF req[r].kind = "ocr"
                  THEN perform_ocr_except(HTTPException(500))
                  ELSE warmup_model_except(HTTPException(500))]
  /\ pc' = [pc EXCEPT ![r] = "responded"]
  /\ loop' = handler_ends(r)
  /\ clock' = clock + 1
  /\ buildFailures' = [buildFailures EXCEPT
                         ![get_model_key(req[r].languages)] = @ + 1]
  /\ UNCHANGED <<STATS, results, req, reader, shut>>
  /\ UNCHANGED <<builderCalls, returned, recFailures, recorded, failures>>

\* reader.readtext(image, detail=request.detail) finds the spans of one of
\* `outputs` and returns; the results are parsed and the response assembled
ReadTextReturns(r, outputs) ==
  /\ loop = r
  /\ pc[r] = "readtext"
  /\ \E spans \in outputs :
       LET returned_results == readtext(spans, req[r].detail)
       IN  /\ results' = [results EXCEPT ![r] = returned_results]
           /\ result' = [result EXCEPT ![r] =
                 OcrResponse(parse_results(returned_results, req[r].detail))]
  /\ pc' = [pc EXCEPT ![r] = "responded"]
  /\ loop' = handler_ends(r)
  /\ UNCHANGED <<MODEL_CACHE, STATS, req, reader, clock, shut>>
  /\ UNCHANGED hist

\* readtext returns, on an image in which the recognizer finds no text
ReadTextSucceeds(r) == ReadTextReturns(r, {<<>>})

\* readtext returns, whatever the recognizer finds
ReadTextDetail(r) == ReadTextReturns(r, Outputs)

\* reader.readtext raises an exception that is no HTTPException
ReadTextFails(r) ==
  /\ loop = r
  /\ pc[r] = "readtext"
  /\ MODEL_CACHE' = on_recognition_failure(MODEL_CACHE,
                                           get_model_key(req[r].languages))
  /\ raisedExc' = [raisedExc EXCEPT ![r] = Unhandled]
  /\ result' = [result EXCEPT ![r] = perform_ocr_except(Unhandled)]
  /\ pc' = [pc EXCEPT ![r] = "responded"]
  /\ loop' = handler_ends(r)
  /\ recFailures' = recFailures \cup
       {[key |-> get_model_key(req[r].languages), reader |-> reader[r].id,
         calls |-> builderCalls[get_model_key(req[r].languages)],
         at |-> clock]}
  /\ UNCHANGED <<STATS, results, req, reader, clock, shut>>
  /\ UNCHANGED <<builderCalls, buildFailures, returned, recorded, failures>>

\* GET /api/v1/stats
GetServerStats(r) ==
  /\ loop = 0
  /\ pc[r] = "call_next"
  /\ req[r].kind = "stats"
  /\ result' = [result EXCEPT ![r] =
                  [kind |-> "response", status_code |-> 200,
                   body |-> get_server_stats(STATS), results |-> <<>>]]
  /\ pc' = [pc EXCEPT ![r] = "responded"]
  /\ UNCHANGED <<MODEL_CACHE, STATS, results, req, reader, loop, clock, shut>>
  /\ UNCHANGED hist

\* GET /api/v1/info: `import torch` inside the handler either works or
\* raises, and nothing catches it
GetServerInfo(r) ==
  /\ loop = 0
  /\ pc[r] = "call_next"
  /\ req[r].kind = "info"
  /\ \E res \in {Response(200), Unhandled} :
       result' = [result EXCEPT ![r] = res]
  /\ pc' = [pc EXCEPT ![r] = "responded"]
  /\ UNCHANGED <<MODEL_CACHE, STATS, results, req, reader, loop, clock, shut>>
  /\ UNCHANGED hist

\* GET /api/v1/models: the entries' languages, loaded_at and gpu_enabled
\* are copied into the answer
ListModels(r) ==
  /\ loop = 0
  /\ pc[r] = "call_next"
  /\ req[r].kind = "models"
  /\ result' = [result EXCEPT ![r] = Response(200)]
  /\ pc' = [pc EXCEPT ![r] = "responded"]
  /\ UNCHANGED <<MODEL_CACHE, STATS, results, req, reader, loop, clock, shut>>
  /\ UNCHANGED hist

\* GET /api/v1/health: the keys are copied into the answer
HealthCheck(r) ==
  /\ loop = 0
  /\ pc[r] = "call_next"
  /\ req[r].kind = "health"
  /\ result' = [result EXCEPT ![r] = Response(200)]
  /\ pc' = [pc EXCEPT ![r] = "responded"]
  /\ UNCHANGED <<MODEL_CACHE, STATS, results, req, reader, loop, clock, shut>>
  /\ UNCHANGED hist

\* track_requests after call_next: the counters, the measured duration and
\* the window, with no await in between.  The request's inputs, locals
\* and response go with it.
TrackRequests(r) ==
  /\ loop = 0
  /\ pc[r] = "responded"
  /\ LET process_time == clock - req[r].start_time
     IN  /\ STATS' = track_requests_update(STATS, call_next_raises(result[r]),
                                           process_time)
         /\ recorded' = Append(recorded, process_time)
  /\ failures' = IF Failed(result[r]) THEN failures + 1 ELSE failures
  /\ pc' = [pc EXCEPT ![r] = "done"]
  /\ req' = [req EXCEPT ![r] = NoRequest]
  /\ reader' = [reader EXCEPT ![r] = NoReader]
  /\ results' = [results EXCEPT ![r] = <<>>]
  /\ result' = [result EXCEPT ![r] = NoResult]
  /\ raisedExc' = [raisedExc EXCEPT ![r] = NoResult]
  /\ UNCHANGED <<MODEL_CACHE, loop, clock, shut>>
  /\ UNCHANGED <<builderCalls, buildFailures, returned, recFailures>>

\* lifespan after its yield: the server has stopped taking requests and the
\* ones it had are answered; the cache is cleared and the process ends
Shutdown ==
  /\ ~shut
  /\ \A r \in Requests : pc[r] \in {"idle", "done"}
  /\ MODEL_CACHE' = clear(MODEL_CACHE)
  /\ shut' = TRUE
  /\ UNCHANGED <<STATS, results, pc, req, reader, result, loop, clock>>
  /\ UNCHANGED hist

Next ==
  \/ \E r \in Requests :
       \/ Arrive(r)
       \/ PerformOcr(r)
       \/ WarmupModel(r)
       \/ GetOrCreateModel(r)
       \/ BuildSucceeds(r)
       \/ BuildFails(r)
       \/ ReadTextSucceeds(r)
       \/ ReadTextFails(r)
       \/ GetServerStats(r)
       \/ GetServerInfo(r)
       \/ ListModels(r)
       \/ HealthCheck(r)
       \/ TrackRequests(r)
  \/ Shutdown

Spec == Init /\ [][Next]_vars

\* a step of a request that is in: its handler, the builder or readtext
\* coming back, its count in track_requests
Progress ==
  \E r \in Requests :
    \/ PerformOcr(r)
    \/ WarmupModel(r)
    \/ GetOrCreateModel(r)
    \/ BuildSucceeds(r)
    \/ BuildFails(r)
    \/ ReadTextSucceeds(r)
    \/ ReadTextFails(r)
    \/ GetServerStats(r)
    \/ GetServerInfo(r)
    \/ ListModels(r)
    \/ HealthCheck(r)
    \/ TrackRequests(r)

\* the server with an event loop that runs a coroutine whenever one is
\* ready, a builder and a readtext that come back
SpecFair == Spec /\ WF_vars(Progress)

\* the server under requests that leave the model cache alone
NextStats ==
  \/ \E r \in Requests :
       \/ ArriveOther(r)
       \/ PerformOcr(r)
       \/ GetServerStats(r)
       \/ GetServerInfo(r)
       \/ TrackRequests(r)
  \/ Shutdown

SpecStats == Init /\ [][NextStats]_vars

\* the server under OCR requests for one language list, of either detail
\* level, on images with any recognizer output
NextOcr ==
  \/ \E r \in Requests :
       \/ ArriveDetail(r)
       \/ PerformOcr(r)
       \/ GetOrCreateModel(r)
       \/ BuildSucceeds(r)
       \/ BuildFails(r)
       \/ ReadTextDetail(r)
       \/ ReadTextFails(r)
       \/ TrackRequests(r)
  \/ Shutdown

SpecOcr == Init /\ [][NextOcr]_vars

\* ------------------------------------------------------------- claims
KeyOf(r) == get_model_key(req[r].languages)
\* the requests that have called, or will call, get_or_create_model
ModelBound(r) ==
  /\ pc[r] \in {"call_next", "get_model", "building", "readtext", "responded"}
  /\ req[r].kind \in {"ocr", "warmup"}
  /\ req[r].image_ok
Building(k) == {r \in Requests : pc[r] = "building" /\ KeyOf(r) = k}
Count(c, s) == Cardinality({i \in 1..Len(s) : s[i] = c})
IsPermutation(s, t) == \A c \in Codes : Count(c, s) = Count(c, t)
SameSet(s, t) ==
  {s[i] : i \in 1..Len(s)} = {t[i] : i \in 1..Len(t)}
Min(a, b) == IF a <= b THEN a ELSE b
LastN(s, n) == SubSeq(s, Len(s) - n + 1, Len(s))
Done == {r \in Requests : pc[r] = "done"}

\* C1: for one key, at most one build is in flight, at most one build ever
\* succeeds, every caller is handed the same reader (the one in the cache),
\* and when no build of the key failed the builder ran exactly once however
\* many requests for the key were in at the same time.
C1_SingleBuild ==
  \A k \in AllKeys :
    /\ Cardinality(Building(k)) <= 1
    /\ builderCalls[k] - buildFailures[k] - Cardinality(Building(k)) <= 1
    /\ Cardinality(returned[k]) <= 1
    /\ (returned[k] # {} /\ buildFailures[k] = 0) => builderCalls[k] = 1
    /\ \A r \in Requests :
         (pc[r] = "readtext" /\ KeyOf(r) = k) =>
           /\ k \in DOMAIN MODEL_CACHE
           /\ reader[r] = MODEL_CACHE[k].reader
           /\ returned[k] = {reader[r].id}

\* C1's case: two requests for one key, both in before the key was cached;
\* the first has its reader and its response, the second has just been
\* handed the same reader, and the builder ran once.
C1_Witness ==
  \E r1, r2 \in Requests :
    /\ r1 # r2
    /\ req[r1].kind = "ocr" /\ req[r2].kind = "ocr"
    /\ req[r1].cold /\ req[r2].cold
    /\ KeyOf(r1) = KeyOf(r2)
    /\ pc[r1] = "responded" /\ result[r1] = Response(200)
    /\ pc[r2] = "readtext"
    /\ reader[r1] = reader[r2]
    /\ builderCalls[KeyOf(r1)] = 1

\* C2: a language list and any permutation of it give the same key, so a
\* request whose list is a permutation of a cached entry's list finds that
\* entry.
C2_OrderIndependent ==
  /\ \A l, p \in LangLists :
       IsPermutation(l, p) => get_model_key(l) = get_model_key(p)
  /\ \A r \in Requests : \A k \in DOMAIN MODEL_CACHE :
       (ModelBound(r) /\ IsPermutation(MODEL_CACHE[k].languages, req[r].languages))
         => KeyOf(r) = k

\* C2's case: a request was handed the reader built for another order of
\* its languages.
C2_Witness ==
  \E r \in Requests :
    /\ pc[r] = "readtext"
    /\ reader[r].lang_list # req[r].languages
    /\ IsPermutation(reader[r].lang_list, req[r].languages)
    /\ builderCalls[KeyOf(r)] = 1

\* C3: two language lists with the same set of codes give the same key, so
\* a request whose list repeats a code of a cached entry's list finds that
\* entry.
C3_DuplicatesRemoved ==
  \A r \in Requests : \A k \in DOMAIN MODEL_CACHE :
    (ModelBound(r) /\ SameSet(MODEL_CACHE[k].languages, req[r].languages))
      => KeyOf(r) = k

\* C4: a request with an empty language list is rejected as invalid input:
\* the builder is never invoked for it, no entry is cached under its key,
\* and its handler ends with a 400.
C4_EmptyListRejected ==
  /\ builderCalls[get_model_key(<<>>)] = 0
  /\ get_model_key(<<>>) \notin DOMAIN MODEL_CACHE
  /\ \A r \in Requests :
       (pc[r] = "responded" /\ req[r].kind \in {"ocr", "warmup"}
          /\ req[r].languages = <<>>)
         => result[r] = HTTPException(400)

\* C5: a failed build reports a 500 and leaves no trace in the cache: every
\* builder invocation for a key is a failure, the build in flight, or the
\* one build whose reader the cache holds, so that a key whose builds all
\* failed is absent; a request past get_or_create_model holds the cached
\* reader, which a build made.
C5_NoPoisonedKey ==
  /\ \A k \in AllKeys :
       ~shut =>
         builderCalls[k] = buildFailures[k] + Cardinality(Building(k))
                             + (IF k \in DOMAIN MODEL_CACHE THEN 1 ELSE 0)
  /\ \A k \in DOMAIN MODEL_CACHE :
       /\ MODEL_CACHE[k].reader.id \in 1..SumCalls
       /\ get_model_key(MODEL_CACHE[k].reader.lang_list) = k
  /\ \A r \in Requests :
       /\ pc[r] = "readtext" =>
            /\ KeyOf(r) \in DOMAIN MODEL_CACHE
            /\ reader[r] = MODEL_CACHE[KeyOf(r)].reader
       /\ (pc[r] = "responded" /\ ModelBound(r)
             /\ KeyOf(r) \notin DOMAIN MODEL_CACHE)
            => result[r] = HTTPException(500)

\* C5's case: the build of a key failed, and a later request for the key
\* invoked the builder again and holds the reader that build installed.
C5_Witness ==
  \E r \in Requests :
    /\ pc[r] = "readtext"
    /\ buildFailures[KeyOf(r)] = 1
    /\ builderCalls[KeyOf(r)] = 2
    /\ KeyOf(r) \in DOMAIN MODEL_CACHE
    /\ reader[r] = MODEL_CACHE[KeyOf(r)].reader
    /\ reader[r].id > 0

\* C6: after readtext failed on the reader of key K, K is still cached with
\* that same reader and the builder has not run again for K; a request for
\* K that comes after is handed that reader.
C6_FailureIsolation ==
  ~shut =>
    \A f \in recFailures :
      /\ f.key \in DOMAIN MODEL_CACHE
      /\ MODEL_CACHE[f.key].reader.id = f.reader
      /\ builderCalls[f.key] = f.calls
      /\ \A r \in Requests :
           (pc[r] \in {"readtext", "responded"} /\ req[r].kind = "ocr"
              /\ req[r].image_ok /\ KeyOf(r) = f.key
              /\ req[r].start_time > f.at /\ ~Failed(result[r]))
             => reader[r].id = f.reader

\* C6's case: readtext failed for K, and a request for K that arrived after
\* the failure has succeeded on the same reader with no builder invocation
\* in between.
C6_Witness ==
  \E f \in recFailures : \E r \in Requests :
    /\ pc[r] = "responded"
    /\ req[r].kind = "ocr"
    /\ KeyOf(r) = f.key
    /\ req[r].start_time > f.at
    /\ result[r] = Response(200)
    /\ reader[r].id = f.reader
    /\ builderCalls[f.key] = f.calls

\* C7: every request that ended in a failure (400, 500) was counted as a
\* failed request and not as a successful one.
C7_FailuresCounted ==
  /\ STATS.failed_requests = failures
  /\ STATS.successful_requests = Cardinality(Done) - failures

\* C8: when N requests have completed, whatever their exit paths and their
\* interleaving, total_requests is N, N durations have been measured and
\* appended, and the window holds min(N, capacity) of them.
C8_OneUpdatePerRequest ==
  /\ STATS.total_requests = Cardinality(Done)
  /\ STATS.successful_requests + STATS.failed_requests = Cardinality(Done)
  /\ Len(recorded) = Cardinality(Done)
  /\ Len(STATS.processing_times) = Min(Cardinality(Done), WindowCapacity)

\* C8's case: two requests that were in at the same time have completed,
\* one through a failure path of its handler and one through an exception
\* nothing caught.
C8_Witness ==
  /\ Cardinality(Done) = 2
  /\ STATS.total_requests = 2
  /\ failures = 2
  /\ STATS.failed_requests = 1
  /\ recorded[1] > 0

\* C9: whenever another request can look, the window holds at most
\* WindowCapacity samples, and they are the most recent
\* min(n, WindowCapacity) of the n durations recorded, in arrival order.
C9_WindowFifo ==
  /\ Len(STATS.processing_times) <= WindowCapacity
  /\ STATS.processing_times =
       LastN(recorded, Min(Len(recorded), WindowCapacity))

\* C9's case: one sample more than the capacity has been recorded and the
\* oldest, which differs from the one after it, is the one that went.
C9_Witness ==
  /\ Len(recorded) = WindowCapacity + 1
  /\ recorded[1] # recorded[2]
  /\ STATS.processing_times = Tail(recorded)

Abs(x) == IF x >= 0 THEN x ELSE 0 - x
\* a (in hundredths) is the mean of the samples s rounded to two decimals
IsRoundedMean(a, s) == 2 * Abs(100 * SumSeq(s) - a * Len(s)) <= Len(s)
Snapshot == get_server_stats(STATS)

\* C10 as stated: the snapshot's average is the arithmetic mean of the
\* retained samples, and 0 for an empty window.
C10_ExactMean ==
  LET times == STATS.processing_times
      a == Snapshot.average_processing_time_ms_x100
  IN  IF times = <<>> THEN a = 0
      ELSE a * Len(times) = 100 * SumSeq(times)

\* C10 as amended: the snapshot's average is the arithmetic mean of the
\* retained samples rounded to two decimal places, and 0 for an empty
\* window; once more than WindowCapacity samples have been recorded it is
\* the rounded mean of the last WindowCapacity of them alone.
C10_RoundedMean ==
  LET times == STATS.processing_times
      a == Snapshot.average_processing_time_ms_x100
  IN  /\ times = <<>> => a = 0
      /\ times # <<>> => IsRoundedMean(a, times)
      /\ Len(recorded) > WindowCapacity =>
           IsRoundedMean(a, LastN(recorded, WindowCapacity))
      /\ \A r \in Requests :
           (pc[r] = "responded" /\ req[r].kind = "stats"
              /\ result[r].body.total_requests = STATS.total_requests)
             => result[r].body.average_processing_time_ms_x100 = a

\* C10's case: a snapshot taken after capacity + 1 samples, the first of
\* which would have changed the average had it counted.
C10_Witness ==
  \E r \in Requests :
    /\ pc[r] = "responded"
    /\ req[r].kind = "stats"
    /\ Len(recorded) = WindowCapacity + 1
    /\ result[r].body = Snapshot
    /\ ~IsRoundedMean(result[r].body.average_processing_time_ms_x100, recorded)

\* r (in hundredths of a percent) is s / t * 100 rounded to two decimals
IsRoundedRate(r, s, t) == 2 * Abs(100 * 100 * s - r * t) <= t
\* the GET /api/v1/stats requests that have their response
StatsAnswered == {r \in Requests : pc[r] = "responded" /\ req[r].kind = "stats"}

\* C11 as stated: the snapshot carries the counters as they are and a
\* success rate equal to successful_requests / total_requests * 100, 0 when
\* total_requests is 0, and taking it never fails.
C11_ExactRate ==
  /\ Snapshot.total_requests = Len(recorded)
  /\ Snapshot.successful_requests = STATS.successful_requests
  /\ Snapshot.failed_requests = STATS.failed_requests
  /\ IF STATS.total_requests = 0 THEN Snapshot.success_rate_x100 = 0
     ELSE Snapshot.success_rate_x100 * STATS.total_requests
            = 100 * 100 * STATS.successful_requests
  /\ \A r \in StatsAnswered : result[r].status_code = 200

\* C11 as amended: the snapshot carries the counters as they are (the total
\* is the number of requests counted, and successful plus failed make the
\* total) and a success rate equal to successful_requests / total_requests
\* * 100 rounded to two decimal places, 0 when total_requests is 0; every
\* snapshot request is answered 200 with such a body, which is the snapshot
\* of the statistics as long as no request has been counted since.
C11_RoundedRate ==
  /\ Snapshot.total_requests = Len(recorded)
  /\ Snapshot.successful_requests = STATS.successful_requests
  /\ Snapshot.failed_requests = STATS.failed_requests
  /\ Snapshot.successful_requests + Snapshot.failed_requests = Len(recorded)
  /\ STATS.total_requests = 0 => Snapshot.success_rate_x100 = 0
  /\ STATS.total_requests > 0 =>
       IsRoundedRate(Snapshot.success_rate_x100, STATS.successful_requests,
                     STATS.total_requests)
  /\ \A r \in StatsAnswered :
       LET body == result[r].body
       IN  /\ result[r].kind = "response"
           /\ result[r].status_code = 200
           /\ body.total_requests = 0 => body.success_rate_x100 = 0
           /\ body.total_requests > 0 =>
                IsRoundedRate(body.success_rate_x100,
                              body.successful_requests, body.total_requests)
           /\ body.total_requests = STATS.total_requests => body = Snapshot

\* C11's case: a snapshot taken after three requests were counted, two as
\* successful and one as failed, reports 66.67.
C11_Witness ==
  \E r \in StatsAnswered :
    /\ result[r].body = Snapshot
    /\ result[r].body.total_requests = 3
    /\ result[r].body.successful_requests = 2
    /\ result[r].body.failed_requests = 1
    /\ result[r].body.success_rate_x100 = 6667

\* C12: while easyocr.Reader is building the model of key A, a request for
\* another key B that is waiting for its handler can run it (and with it
\* get_or_create_model for B) without waiting for A's build to end.
C12_OtherKeyNotBlocked ==
  \A a, b \in Requests :
    (pc[a] = "building" /\ pc[b] = "call_next" /\ ModelBound(b)
       /\ KeyOf(b) # KeyOf(a))
      => ENABLED (PerformOcr(b) \/ WarmupModel(b))

\* the POST /api/v1/ocr requests that have their answer
OcrAnswered == {r \in Requests : pc[r] = "responded" /\ req[r].kind = "ocr"}

\* C13: a POST /api/v1/ocr request whose image cannot be decoded is
\* answered 400, one whose model build failed (it never got a reader) 500,
\* one whose readtext raised 500; a request in which anything was raised is
\* answered with an error and never with a success response, a success
\* response is a 200 after nothing was raised, and a 400 raised for the
\* image leaves the handler as that 400.
C13_ErrorStatus ==
  \A r \in OcrAnswered :
    /\ ~req[r].image_ok =>
         /\ raisedExc[r] = HTTPException(400)
         /\ result[r] = HTTPException(400)
    /\ (req[r].image_ok /\ reader[r] = NoReader) => result[r] = HTTPException(500)
    /\ raisedExc[r].kind = "exception" => result[r] = HTTPException(500)
    /\ raisedExc[r] # NoResult =>
         /\ result[r].kind = "http_exception"
         /\ result[r].status_code \in {400, 500}
    /\ raisedExc[r].status_code = 400 => result[r].status_code = 400
    /\ result[r].kind = "response" =>
         /\ result[r].status_code = 200
         /\ raisedExc[r] = NoResult
         /\ req[r].image_ok
         /\ reader[r] # NoReader

\* C13's case: two requests have their answers, one a 400 for an image that
\* could not be decoded, the other a 500 after readtext raised on a reader
\* it had been handed.
C13_Witness ==
  \E r1, r2 \in OcrAnswered :
    /\ ~req[r1].image_ok
    /\ result[r1].status_code = 400
    /\ req[r2].image_ok
    /\ reader[r2] # NoReader
    /\ raisedExc[r2].kind = "exception"
    /\ result[r2].status_code = 500

\* C14: warmup_model never calls readtext and never holds a reader of its
\* own; when it has answered 200 its key is cached, with the one reader
\* that the one successful build of the key made and that every caller was
\* handed; if the key was not cached when the warmup came in, the entry was
\* installed after that.  A call of get_or_create_model for a key that was
\* cached when its request came in never invokes the builder and meets no
\* build failure, and the key's entry (reader, languages, loaded_at,
\* gpu_enabled) is still the one it was.
C14_WarmupIdempotent ==
  \A r \in Requests :
    /\ req[r].kind = "warmup" =>
         /\ pc[r] # "readtext"
         /\ reader[r] = NoReader
         /\ (pc[r] = "responded" /\ result[r] = Response(200)) =>
              /\ KeyOf(r) \in DOMAIN MODEL_CACHE
              /\ builderCalls[KeyOf(r)] = buildFailures[KeyOf(r)] + 1
              /\ returned[KeyOf(r)] = {MODEL_CACHE[KeyOf(r)].reader.id}
              /\ req[r].cold => MODEL_CACHE[KeyOf(r)].loaded_at > req[r].start_time
    /\ (ModelBound(r) /\ ~req[r].cold) =>
         /\ pc[r] # "building"
         /\ KeyOf(r) \in DOMAIN MODEL_CACHE
         /\ MODEL_CACHE[KeyOf(r)] = req[r].seen
         /\ pc[r] = "responded" => raisedExc[r].status_code # 500

\* C14's case: a warmup for a key that was cached, by one build, well before
\* the warmup came in has answered 200.
C14_Witness ==
  \E r \in Requests :
    /\ req[r].kind = "warmup"
    /\ ~req[r].cold
    /\ pc[r] = "responded"
    /\ result[r] = Response(200)
    /\ builderCalls[KeyOf(r)] = 1
    /\ MODEL_CACHE[KeyOf(r)] = req[r].seen
    /\ req[r].seen.loaded_at < clock

\* p is the point q (in halves of a pixel) with each coordinate made an
\* integer no further from zero
IsPointOf(p, q) ==
  \A c \in 1..2 : Abs(2 * p[c]) <= Abs(q[c]) /\ Abs(q[c] - 2 * p[c]) < 2
\* entries carry the texts of returned_results, one each, in order, and
\* nothing else
TextOnly(entries, returned_results) ==
  /\ Len(entries) = Len(returned_results)
  /\ \A i \in 1..Len(entries) :
       /\ entries[i].text = returned_results[i]
       /\ "bbox" \in DOMAIN entries[i] => entries[i].bbox = <<>>
       /\ "confidence" \in DOMAIN entries[i] => entries[i].confidence = 0
\* entries carry the triples of returned_results, one each, in order: the
\* four points of the box in the triple's order, the text, the confidence
Detailed(entries, returned_results) ==
  /\ Len(entries) = Len(returned_results)
  /\ \A i \in 1..Len(entries) :
       /\ Len(entries[i].bbox) = 4
       /\ \A j \in 1..4 : IsPointOf(entries[i].bbox[j], returned_results[i][1][j])
       /\ entries[i].text = returned_results[i][2]
       /\ entries[i].confidence = returned_results[i][3]

\* C15: the results of a success response of POST /api/v1/ocr are, at
\* detail 0, one entry per item readtext returned, in readtext's order, with
\* the item as text, an empty bbox and confidence 0; at detail 1, one entry
\* per triple readtext returned, in readtext's order, with the triple's
\* four points in their order (coordinates as integers), its text and its
\* confidence.  The bridge shapes readtext's output the same way, its
\* detail 0 entries having the text alone.
C15_DetailContract ==
  /\ \A r \in OcrAnswered :
       result[r].kind = "response" =>
         IF req[r].detail = 0
         THEN /\ TextOnly(result[r].results, results[r])
              /\ \A i \in 1..Len(results[r]) :
                   DOMAIN result[r].results[i] = {"bbox", "text", "confidence"}
         ELSE Detailed(result[r].results, results[r])
  /\ \A spans \in Outputs :
       /\ TextOnly(bridge_output(readtext(spans, 0), 0), readtext(spans, 0))
       /\ \A i \in 1..Len(spans) :
            DOMAIN bridge_output(readtext(spans, 0), 0)[i] = {"text"}
       /\ Detailed(bridge_output(readtext(spans, 1), 1), readtext(spans, 1))

\* C15's case: two requests on images with two different spans each have
\* their success responses, one at detail 0 and one at detail 1, the
\* latter with a box whose corners are not whole pixels.
C15_Witness ==
  \E r0, r1 \in OcrAnswered :
    /\ req[r0].detail = 0 /\ req[r1].detail = 1
    /\ result[r0].kind = "response" /\ result[r1].kind = "response"
    /\ Len(results[r0]) = 2 /\ results[r0][1] # results[r0][2]
    /\ Len(results[r1]) = 2 /\ results[r1][1] # results[r1][2]
    /\ Len(result[r0].results) = 2 /\ Len(result[r1].results) = 2
    /\ results[r1][1][1][1][1] % 2 # 0

\* the requests that hold a reader get_or_create_model handed them
HoldsReader(r) == reader[r] # NoReader

C17_GpuInIdentity ==
  \A r \in Requests :
    HoldsReader(r) =>
      /\ reader[r].gpu = req[r].gpu
      /\ KeyOf(r) \in DOMAIN MODEL_CACHE =>
           MODEL_CACHE[KeyOf(r)].gpu_enabled = req[r].gpu

\* C18: when two requests for one key, both in before the key was cached,
\* are in at the same time and the one build of the key has failed for the
\* first of them to be served, the builder has been invoked once, not once
\* for each, and the other request is handed no reader: it is answered with
\* the build failure too.
C18_SharedBuildFailure ==
  \A r1, r2 \in Requests :
    (/\ r1 # r2
     /\ ModelBound(r1) /\ ModelBound(r2)
     /\ KeyOf(r1) = KeyOf(r2)
     /\ req[r1].cold /\ req[r2].cold
     /\ req[r2].start_time < req[r1].start_time
     /\ pc[r1] = "responded"
     /\ raisedExc[r1] = HTTPException(500)
     /\ buildFailures[KeyOf(r1)] = 1)
      => /\ builderCalls[KeyOf(r1)] = 1
         /\ ~HoldsReader(r2)
         /\ pc[r2] = "responded" => result[r2] = HTTPException(500)

\* C19: no step of the server other than the shutdown's clear (a request
\* of any kind, answered or failed) removes an entry from the cache or
\* changes one: a cached key stays cached with the same reader, languages,
\* loaded_at and gpu_enabled.
C19_NoEviction ==
  [][shut' = shut =>
       \A k \in DOMAIN MODEL_CACHE :
         /\ k \in DOMAIN MODEL_CACHE'
         /\ MODEL_CACHE'[k] = MODEL_CACHE[k]]_vars

\* C19's case: two keys are cached, the older entry having outlived the
\* build and install of the newer one and a readtext failure.
C19_Witness ==
  /\ ~shut
  /\ recFailures # {}
  /\ \E k1, k2 \in DOMAIN MODEL_CACHE :
       /\ MODEL_CACHE[k1].loaded_at < MODEL_CACHE[k2].loaded_at
       /\ MODEL_CACHE[k1].reader.id < MODEL_CACHE[k2].reader.id
       /\ returned[k1] = {MODEL_CACHE[k1].reader.id}

\* the POST /api/v1/ocr requests whose image cannot be decoded
BadImage(r) == req[r].kind = "ocr" /\ ~req[r].image_ok

\* C20: a POST /api/v1/ocr request whose image cannot be decoded never
\* gets to get_or_create_model: it is never at the lookup, in a build or in
\* readtext, it holds no reader, and its answer is the 400 of the decoding
\* step; as long as such requests are all the server has had, the builder
\* has not been invoked and the cache is as it was, empty, their key
\* uncached.
C20_ValidationFirst ==
  /\ \A r \in Requests :
       BadImage(r) =>
         /\ pc[r] \in {"call_next", "responded"}
         /\ ~HoldsReader(r)
         /\ pc[r] = "responded" =>
              /\ raisedExc[r] = HTTPException(400)
              /\ result[r] = HTTPException(400)
  /\ (Done = {} /\ \A r \in InFlight : BadImage(r)) =>
       /\ SumCalls = 0
       /\ MODEL_CACHE = <<>>
       /\ \A k \in AllKeys : returned[k] = {}

\* C20's case: two requests with undecodable images, for a key that is not
\* cached, are all the server has had, and both have their 400.
C20_Witness ==
  /\ Done = {}
  /\ Cardinality(InFlight) = 2
  /\ \A r \in InFlight :
       /\ BadImage(r)
       /\ req[r].cold
       /\ pc[r] = "responded"
       /\ result[r].status_code = 400
  /\ SumCalls = 0
  /\ MODEL_CACHE = <<>>

\* C21: in every state (the update of track_requests has no await in it,
\* so no state has a request in the middle of it) total_requests is
\* successful_requests + failed_requests, the three counters are natural
\* numbers, and no step of the server makes any of them smaller.
C21_CountersConsistent ==
  /\ [](/\ STATS.total_requests
             = STATS.successful_requests + STATS.failed_requests
        /\ STATS.total_requests \in Nat
        /\ STATS.successful_requests \in Nat
        /\ STATS.failed_requests \in Nat)
  /\ [][/\ STATS'.total_requests >= STATS.total_requests
        /\ STATS'.successful_requests >= STATS.successful_requests
        /\ STATS'.failed_requests >= STATS.failed_requests]_vars

\* C21's case: three requests have been counted, at least one each way,
\* while another request has its answer and is about to be counted.
C21_Witness ==
  /\ STATS.total_requests = 3
  /\ STATS.successful_requests >= 1
  /\ STATS.failed_requests >= 1
  /\ \E r \in Requests : pc[r] = "responded" /\ result[r] = Unhandled

\* C22: every request that is in (waiting for its handler, at the lookup
\* of get_or_create_model, in a build, in readtext, or answered and not yet
\* counted) is eventually counted by track_requests.  A request gets there
\* only through the return or the failure of its get_or_create_model call
\* and through its response or its error, so each of these happens; a
\* request waiting for its handler does not wait for ever, whatever builds
\* succeed or fail meanwhile.
C22_EveryRequestCompletes ==
  \A r \in 1..MaxRequests :
    (pc[r] \in {"call_next", "get_model", "building", "readtext", "responded"})
      ~> (pc[r] = "done")

\* C22's case: at least two requests have been counted and none is left in
\* flight, after a build failed for a key whose builder was invoked again.
C22_Witness ==
  /\ InFlight = {}
  /\ Cardinality(Done) >= 2
  /\ STATS.total_requests = Cardinality(Done)
  /\ \E k \in AllKeys : buildFailures[k] >= 1 /\ builderCalls[k] >= 2
====
